---- MODULE Spec2Model ----
(***************************************************************************)
(* Model of nqueens.c: the Board with its free-arrays, the placement       *)
(* operations, the recursive backtracking search (as an explicit stack of  *)
(* frames), the Las Vegas search solve_lv, the retry loop repeat_lv and    *)
(* its two callers print_solution and print_stats.                         *)
(***************************************************************************)
EXTENDS Integers, Sequences, FiniteSets, TLC

\* Largest board size explored by the Las Vegas search.
MaxSize == 5
\* Cap on the unbounded trial counter of repeat_lv.
MaxTrials == 2
\* Largest number of repetitions print_stats is run with.
MaxReps == 2
\* Largest board size for backtrack run alone on an empty board.
MaxBT == 8
\* Largest board size for free sequences of place_queen / remove_queen.
MaxNest == 3
\* Largest board size for repeat_lv without a cap on the attempts.
MaxLV == 4

VARIABLES
  caller,       \* "print_solution", "print_stats", or the harness of a side specification
  queens,       \* argument of print_solution / print_stats: the board size asked for
  reps,         \* argument of print_stats
  i,            \* loop variable i of print_stats
  rand_queens,  \* random_queens of repeat_lv / solve_lv (rand_queens of the caller)
  board,        \* the Board record
  trials,       \* *trials of repeat_lv
  pc,           \* position in the program
  lv_y,         \* loop variable y of solve_lv
  stack,        \* frames of backtrack, outermost first: [y, x]
  success,      \* value returned by the last backtrack / solve_lv call
  oob,          \* an array was indexed outside its allocation
  rand_used,    \* rand() was called since repeat_lv was entered
  hist,         \* place_queen calls not yet undone by remove_queen or reset_board, oldest first
  depth_max     \* longest hist reached (side specification)

vars == <<caller, queens, reps, i, rand_queens, board, trials, pc, lv_y, stack,
          success, oob, rand_used, hist, depth_max>>

-----------------------------------------------------------------------------
(* Board and placement operations, lines 5-72 and 122-131.                 *)

\* The arrays of a Board: index sets of solution / col_is_free and of the diagonals.
Rows(size) == 0 .. (size - 1)
Diags(size) == 0 .. (2 * size - 2)

\* create_board with the second loop running to size instead of 2 * size - 1:
\* the upper half of the diagonal arrays is never marked free.
create_board_short_diag(size) ==
  [ size            |-> size,
    shift_diag45    |-> size - 1,
    solution        |-> [k \in Rows(size) |-> -1],
    col_is_free     |-> [k \in Rows(size) |-> 1],
    diag45_is_free  |-> [k \in Diags(size) |-> IF k < size THEN 1 ELSE 0],
    diag135_is_free |-> [k \in Diags(size) |-> IF k < size THEN 1 ELSE 0] ]

create_board(size) ==
  [ size            |-> size,
    shift_diag45    |-> size - 1,
    solution        |-> [k \in Rows(size) |-> -1],
    col_is_free     |-> [k \in Rows(size) |-> 1],
    diag45_is_free  |-> [k \in Diags(size) |-> 1],
    diag135_is_free |-> [k \in Diags(size) |-> 1] ]

\* `Board board;` before create_board has assigned it: no storage behind it.
NoBoard ==
  [ size |-> 0, shift_diag45 |-> 0, solution |-> <<>>, col_is_free |-> <<>>,
    diag45_is_free |-> <<>>, diag135_is_free |-> <<>> ]

\* The board after delete_board: the four arrays are released.
delete_board(b) ==
  [b EXCEPT !.solution = <<>>, !.col_is_free = <<>>,
            !.diag45_is_free = <<>>, !.diag135_is_free = <<>>]

\* is_valid reads solution[size - 1]; the read is inside the array iff size >= 1.
is_valid_in_bounds(b) == (b.size - 1) \in DOMAIN b.solution

is_valid(b) == b.solution[b.size - 1] # -1

\* The three indices can_place_queen / place_queen / remove_queen use.
in_bounds(b, x, y) ==
  /\ x \in DOMAIN b.col_is_free
  /\ y \in DOMAIN b.solution
  /\ (y - x + b.shift_diag45) \in DOMAIN b.diag45_is_free
  /\ (y + x) \in DOMAIN b.diag135_is_free

\* can_place_queen without the test of the falling diagonal.
can_place_queen_no_diag135(b, x, y) ==
  /\ b.col_is_free[x] # 0
  /\ b.diag45_is_free[y - x + b.shift_diag45] # 0

\* can_place_queen without the test of the rising diagonal.
can_place_queen_no_diag45(b, x, y) ==
  /\ b.col_is_free[x] # 0
  /\ b.diag135_is_free[y + x] # 0

can_place_queen(b, x, y) ==
  /\ b.col_is_free[x] # 0
  /\ b.diag45_is_free[y - x + b.shift_diag45] # 0
  /\ b.diag135_is_free[y + x] # 0

\* place_queen that leaves the column marked free.
place_queen_no_col(b, x, y) ==
  [b EXCEPT !.solution[y] = x,
            !.diag45_is_free[y - x + b.shift_diag45] = 0,
            !.diag135_is_free[y + x] = 0]

place_queen(b, x, y) ==
  [b EXCEPT !.solution[y] = x,
            !.col_is_free[x] = 0,
            !.diag45_is_free[y - x + b.shift_diag45] = 0,
            !.diag135_is_free[y + x] = 0]

\* remove_queen that leaves the falling diagonal marked occupied.
remove_queen_keeps_diag135(b, x, y) ==
  [b EXCEPT !.solution[y] = -1,
            !.col_is_free[x] = 1,
            !.diag45_is_free[y - x + b.shift_diag45] = 1]

remove_queen(b, x, y) ==
  [b EXCEPT !.solution[y] = -1,
            !.col_is_free[x] = 1,
            !.diag45_is_free[y - x + b.shift_diag45] = 1,
            !.diag135_is_free[y + x] = 1]

\* reset_board with the second loop running to size instead of 2 * size - 1.
reset_board_short_diag(b) ==
  [b EXCEPT !.solution        = [k \in DOMAIN b.solution |->
                                   IF k < b.size THEN -1 ELSE b.solution[k]],
            !.col_is_free     = [k \in DOMAIN b.col_is_free |->
                                   IF k < b.size THEN 1 ELSE b.col_is_free[k]],
            !.diag45_is_free  = [k \in DOMAIN b.diag45_is_free |->
                                   IF k < b.size THEN 1 ELSE b.diag45_is_free[k]],
            !.diag135_is_free = [k \in DOMAIN b.diag135_is_free |->
                                   IF k < b.size THEN 1 ELSE b.diag135_is_free[k]]]

reset_board(b) ==
  [b EXCEPT !.solution        = [k \in DOMAIN b.solution |->
                                   IF k < b.size THEN -1 ELSE b.solution[k]],
            !.col_is_free     = [k \in DOMAIN b.col_is_free |->
                                   IF k < b.size THEN 1 ELSE b.col_is_free[k]],
            !.diag45_is_free  = [k \in DOMAIN b.diag45_is_free |->
                                   IF k < 2 * b.size - 1 THEN 1 ELSE b.diag45_is_free[k]],
            !.diag135_is_free = [k \in DOMAIN b.diag135_is_free |->
                                   IF k < 2 * b.size - 1 THEN 1 ELSE b.diag135_is_free[k]]]

-----------------------------------------------------------------------------
(* backtrack as the function it computes, lines 81-95: the value returned  *)
(* and the board left behind.                                              *)

RECURSIVE backtrack(_, _), backtrack_for(_, _, _)

\* The for loop of backtrack from column x on.
backtrack_for(b, y, x) ==
  IF x < b.size
    THEN IF can_place_queen(b, x, y)
           THEN LET r == backtrack(place_queen(b, x, y), y + 1)
                IN  IF r.success = 1
                      THEN r
                      ELSE backtrack_for(remove_queen(r.board, x, y), y, x + 1)
           ELSE backtrack_for(b, y, x + 1)
    ELSE [success |-> 0, board |-> b]

backtrack(b, y) ==
  IF is_valid(b) THEN [success |-> 1, board |-> b] ELSE backtrack_for(b, y, 0)

-----------------------------------------------------------------------------
(* The program as a state machine.                                         *)

Top == stack[Len(stack)]
Pop == SubSeq(stack, 1, Len(stack) - 1)
SetTopX(x) == [stack EXCEPT ![Len(stack)].x = x]

\* Columns solve_lv collects in available_cols for row y (lines 109-111).
available_cols(b, y) == {x \in Rows(b.size) : can_place_queen(b, x, y)}

\* print_solution(queens, rand_queens) or print_stats(queens, reps) is entered.
\* print_solution takes any rand_queens; one more than the size is enough to
\* show what a prefix longer than the board does.
Init ==
  /\ caller \in {"print_solution", "print_stats"}
  /\ queens \in (-1) .. MaxSize
  /\ reps \in IF caller = "print_stats" THEN 1 .. MaxReps ELSE {0}
  /\ rand_queens \in IF caller = "print_solution"
                      THEN 0 .. ((IF queens > 0 THEN queens ELSE 0) + 1)
                      ELSE {0}
  /\ i = 0
  /\ board = NoBoard
  /\ trials = 0
  /\ pc = "start"
  /\ lv_y = 0
  /\ stack = <<>>
  /\ success = 0
  /\ oob = FALSE
  /\ rand_used = FALSE
  /\ hist = <<>>
  /\ depth_max = 0

\* Lines 156 and 179: Board board = create_board(queens).
create_board_call ==
  /\ pc = "start"
  /\ board' = create_board(queens)
  /\ pc' = "created"
  /\ UNCHANGED <<caller, queens, reps, i, rand_queens, trials, lv_y, stack,
                 success, oob, rand_used, hist, depth_max>>

\* Line 181: print_solution calls repeat_lv(&board, rand_queens, &trials).
print_solution_call ==
  /\ caller = "print_solution"
  /\ pc = "created"
  /\ pc' = "repeat_lv"
  /\ UNCHANGED <<caller, queens, reps, i, rand_queens, board, trials, lv_y, stack,
                 success, oob, rand_used, hist, depth_max>>

\* Lines 182-183: print_board reads solution[0 .. size - 1] (solution[size - 1]
\* always), then delete_board.
print_solution_end ==
  /\ caller = "print_solution"
  /\ pc = "done"
  /\ oob' = (oob \/ ~is_valid_in_bounds(board))
  /\ board' = delete_board(board)
  /\ pc' = "exit"
  /\ UNCHANGED <<caller, queens, reps, i, rand_queens, trials, lv_y, stack,
                 success, rand_used, hist, depth_max>>

\* Line 158: the outer loop of print_stats starts at rand_queens = queens.
print_stats_begin ==
  /\ caller = "print_stats"
  /\ pc = "created"
  /\ rand_queens' = queens
  /\ i' = 0
  /\ pc' = "stats_loop"
  /\ UNCHANGED <<caller, queens, reps, board, trials, lv_y, stack,
                 success, oob, rand_used, hist, depth_max>>

\* Lines 158-163: rand_queens > -1 and i < reps: repeat_lv(&board, rand_queens, &trials).
print_stats_call ==
  /\ pc = "stats_loop"
  /\ rand_queens > -1
  /\ i < reps
  /\ pc' = "repeat_lv"
  /\ UNCHANGED <<caller, queens, reps, i, rand_queens, board, trials, lv_y, stack,
                 success, oob, rand_used, hist, depth_max>>

\* Line 164 and the ++i of line 161, after repeat_lv has returned.
print_stats_return ==
  /\ caller = "print_stats"
  /\ pc = "done"
  /\ i' = i + 1
  /\ pc' = "stats_loop"
  /\ UNCHANGED <<caller, queens, reps, rand_queens, board, trials, lv_y, stack,
                 success, oob, rand_used, hist, depth_max>>

\* Lines 158-161: the inner loop is over, --rand_queens, the next one starts at i = 0.
print_stats_next ==
  /\ pc = "stats_loop"
  /\ rand_queens > -1
  /\ i >= reps
  /\ rand_queens' = rand_queens - 1
  /\ i' = 0
  /\ UNCHANGED <<caller, queens, reps, board, trials, pc, lv_y, stack,
                 success, oob, rand_used, hist, depth_max>>

\* Lines 158 and 171: the outer loop is over, delete_board.
print_stats_end ==
  /\ pc = "stats_loop"
  /\ rand_queens <= -1
  /\ board' = delete_board(board)
  /\ pc' = "exit"
  /\ UNCHANGED <<caller, queens, reps, i, rand_queens, trials, lv_y, stack,
                 success, oob, rand_used, hist, depth_max>>

\* Line 140: *trials = 0.
repeat_lv_begin ==
  /\ pc = "repeat_lv"
  /\ trials' = 0
  /\ rand_used' = FALSE
  /\ pc' = "do"
  /\ UNCHANGED <<caller, queens, reps, i, rand_queens, board, lv_y, stack,
                 success, oob, hist, depth_max>>

\* Lines 141-144: reset_board(board); ++*trials; and solve_lv is entered.
repeat_lv_do ==
  /\ pc = "do"
  /\ trials < MaxTrials
  /\ board' = reset_board(board)
  /\ trials' = trials + 1
  /\ lv_y' = 0
  /\ pc' = "solve_lv"
  /\ hist' = <<>>
  /\ UNCHANGED <<caller, queens, reps, i, rand_queens, stack,
                 success, oob, rand_used, depth_max>>

\* solve_lv always taking available_cols[0] instead of a random entry.
solve_lv_place_first ==
  /\ pc = "solve_lv"
  /\ lv_y < rand_queens
  /\ \A x \in Rows(board.size) : in_bounds(board, x, lv_y)
  /\ \E x \in available_cols(board, lv_y) :
       /\ \A x2 \in available_cols(board, lv_y) : x <= x2
       /\ board' = place_queen(board, x, lv_y)
  /\ lv_y' = lv_y + 1
  /\ rand_used' = TRUE
  /\ hist' = Append(hist, [x |-> board'.solution[lv_y], y |-> lv_y])
  /\ UNCHANGED <<caller, queens, reps, i, rand_queens, trials, pc, stack,
                 success, oob, depth_max>>

\* Lines 108-113, one round of the loop with a column available: rand() % index
\* can be any index of available_cols.
solve_lv_place ==
  /\ pc = "solve_lv"
  /\ lv_y < rand_queens
  /\ \A x \in Rows(board.size) : in_bounds(board, x, lv_y)
  /\ \E x \in available_cols(board, lv_y) :
       board' = place_queen(board, x, lv_y)
  /\ lv_y' = lv_y + 1
  /\ rand_used' = TRUE
  /\ hist' = Append(hist, [x |-> board'.solution[lv_y], y |-> lv_y])
  /\ UNCHANGED <<caller, queens, reps, i, rand_queens, trials, pc, stack,
                 success, oob, depth_max>>

\* Line 112: index == 0, solve_lv returns 0.
solve_lv_fail ==
  /\ pc = "solve_lv"
  /\ lv_y < rand_queens
  /\ \A x \in Rows(board.size) : in_bounds(board, x, lv_y)
  /\ available_cols(board, lv_y) = {}
  /\ success' = 0
  /\ pc' = "while"
  /\ UNCHANGED <<caller, queens, reps, i, rand_queens, board, trials, lv_y, stack,
                 oob, rand_used, hist, depth_max>>

\* solve_lv calling backtrack(board, random_queens + 1).
solve_lv_backtrack_next_row ==
  /\ pc = "solve_lv"
  /\ lv_y >= rand_queens
  /\ stack' = <<[y |-> rand_queens + 1, x |-> 0]>>
  /\ pc' = "bt_entry"
  /\ UNCHANGED <<caller, queens, reps, i, rand_queens, board, trials, lv_y,
                 success, oob, rand_used, hist, depth_max>>

\* Line 115: backtrack(board, random_queens) is called.
solve_lv_backtrack ==
  /\ pc = "solve_lv"
  /\ lv_y >= rand_queens
  /\ stack' = <<[y |-> rand_queens, x |-> 0]>>
  /\ pc' = "bt_entry"
  /\ UNCHANGED <<caller, queens, reps, i, rand_queens, board, trials, lv_y,
                 success, oob, rand_used, hist, depth_max>>

\* backtrack without the is_valid test of line 82: the loop is always entered.
backtrack_entry_no_test ==
  /\ pc = "bt_entry"
  /\ pc' = "bt_loop"
  /\ UNCHANGED <<caller, queens, reps, i, rand_queens, board, trials, lv_y, stack,
                 success, oob, rand_used, hist, depth_max>>

\* Line 82: if (is_valid(board)) return 1; otherwise the for loop starts at x = 0.
\* On a board of size <= 0 the read of solution[size - 1] is outside the array:
\* it may yield any value, or fault.
backtrack_entry ==
  /\ pc = "bt_entry"
  /\ IF is_valid_in_bounds(board)
       THEN /\ IF is_valid(board)
                 THEN stack' = Pop /\ success' = 1 /\ pc' = "bt_return"
                 ELSE stack' = stack /\ success' = success /\ pc' = "bt_loop"
            /\ oob' = oob
       ELSE /\ oob' = TRUE
            /\ \/ stack' = Pop /\ success' = 1 /\ pc' = "bt_return"
               \/ stack' = stack /\ success' = success /\ pc' = "bt_loop"
               \/ stack' = stack /\ success' = success /\ pc' = "undefined"
  /\ UNCHANGED <<caller, queens, reps, i, rand_queens, board, trials, lv_y,
                 rand_used, hist, depth_max>>

\* backtrack recursing with y instead of y + 1.
backtrack_place_same_row ==
  /\ pc = "bt_loop"
  /\ Top.x < board.size
  /\ in_bounds(board, Top.x, Top.y)
  /\ can_place_queen(board, Top.x, Top.y)
  /\ board' = place_queen(board, Top.x, Top.y)
  /\ stack' = Append(stack, [y |-> Top.y, x |-> 0])
  /\ pc' = "bt_entry"
  /\ hist' = Append(hist, [x |-> Top.x, y |-> Top.y])
  /\ UNCHANGED <<caller, queens, reps, i, rand_queens, trials, lv_y,
                 success, oob, rand_used, depth_max>>

\* backtrack recursing with y + 2 instead of y + 1.
backtrack_place_skips_row ==
  /\ pc = "bt_loop"
  /\ Top.x < board.size
  /\ in_bounds(board, Top.x, Top.y)
  /\ can_place_queen(board, Top.x, Top.y)
  /\ board' = place_queen(board, Top.x, Top.y)
  /\ stack' = Append(stack, [y |-> Top.y + 2, x |-> 0])
  /\ pc' = "bt_entry"
  /\ hist' = Append(hist, [x |-> Top.x, y |-> Top.y])
  /\ UNCHANGED <<caller, queens, reps, i, rand_queens, trials, lv_y,
                 success, oob, rand_used, depth_max>>

\* Lines 84-87: can_place_queen(board, x, y) holds: place_queen, then the
\* recursive call backtrack(board, y + 1).
backtrack_place ==
  /\ pc = "bt_loop"
  /\ Top.x < board.size
  /\ in_bounds(board, Top.x, Top.y)
  /\ can_place_queen(board, Top.x, Top.y)
  /\ board' = place_queen(board, Top.x, Top.y)
  /\ stack' = Append(stack, [y |-> Top.y + 1, x |-> 0])
  /\ pc' = "bt_entry"
  /\ hist' = Append(hist, [x |-> Top.x, y |-> Top.y])
  /\ UNCHANGED <<caller, queens, reps, i, rand_queens, trials, lv_y,
                 success, oob, rand_used, depth_max>>

\* backtrack returning 0 at the first column that cannot take a queen.
backtrack_skip_returns ==
  /\ pc = "bt_loop"
  /\ Top.x < board.size
  /\ in_bounds(board, Top.x, Top.y)
  /\ ~can_place_queen(board, Top.x, Top.y)
  /\ stack' = Pop
  /\ success' = 0
  /\ pc' = "bt_return"
  /\ UNCHANGED <<caller, queens, reps, i, rand_queens, board, trials, lv_y,
                 oob, rand_used, hist, depth_max>>

\* Lines 84-85: can_place_queen(board, x, y) fails, ++x.
backtrack_skip ==
  /\ pc = "bt_loop"
  /\ Top.x < board.size
  /\ in_bounds(board, Top.x, Top.y)
  /\ ~can_place_queen(board, Top.x, Top.y)
  /\ stack' = SetTopX(Top.x + 1)
  /\ UNCHANGED <<caller, queens, reps, i, rand_queens, board, trials, pc, lv_y,
                 success, oob, rand_used, hist, depth_max>>

\* Lines 84 and 94: the loop is over, return 0.
backtrack_fail ==
  /\ pc = "bt_loop"
  /\ Top.x >= board.size
  /\ stack' = Pop
  /\ success' = 0
  /\ pc' = "bt_return"
  /\ UNCHANGED <<caller, queens, reps, i, rand_queens, board, trials, lv_y,
                 oob, rand_used, hist, depth_max>>

\* Lines 87-89: the recursive call returned 1, return 1.
backtrack_success ==
  /\ pc = "bt_return"
  /\ stack # <<>>
  /\ success # 0
  /\ stack' = Pop
  /\ UNCHANGED <<caller, queens, reps, i, rand_queens, board, trials, pc, lv_y,
                 success, oob, rand_used, hist, depth_max>>

\* backtrack moving on two columns after a failed recursive call.
backtrack_undo_skips_column ==
  /\ pc = "bt_return"
  /\ stack # <<>>
  /\ success = 0
  /\ board' = remove_queen(board, Top.x, Top.y)
  /\ stack' = SetTopX(Top.x + 2)
  /\ pc' = "bt_loop"
  /\ hist' = SubSeq(hist, 1, Len(hist) - 1)
  /\ UNCHANGED <<caller, queens, reps, i, rand_queens, trials, lv_y,
                 success, oob, rand_used, depth_max>>

\* backtrack trying the same column again after a failed recursive call.
backtrack_undo_same_column ==
  /\ pc = "bt_return"
  /\ stack # <<>>
  /\ success = 0
  /\ board' = remove_queen(board, Top.x, Top.y)
  /\ stack' = stack
  /\ pc' = "bt_loop"
  /\ hist' = SubSeq(hist, 1, Len(hist) - 1)
  /\ UNCHANGED <<caller, queens, reps, i, rand_queens, trials, lv_y,
                 success, oob, rand_used, depth_max>>

\* backtrack moving on to the next column without remove_queen.
backtrack_undo_no_remove ==
  /\ pc = "bt_return"
  /\ stack # <<>>
  /\ success = 0
  /\ stack' = SetTopX(Top.x + 1)
  /\ pc' = "bt_loop"
  /\ UNCHANGED <<caller, queens, reps, i, rand_queens, board, trials, lv_y,
                 success, oob, rand_used, hist, depth_max>>

\* Lines 87-91 and 84: the recursive call returned 0: remove_queen, ++x.
backtrack_undo ==
  /\ pc = "bt_return"
  /\ stack # <<>>
  /\ success = 0
  /\ board' = remove_queen(board, Top.x, Top.y)
  /\ stack' = SetTopX(Top.x + 1)
  /\ pc' = "bt_loop"
  /\ hist' = SubSeq(hist, 1, Len(hist) - 1)
  /\ UNCHANGED <<caller, queens, reps, i, rand_queens, trials, lv_y,
                 success, oob, rand_used, depth_max>>

\* Lines 111 and 85: can_place_queen(board, x, y) is called with an index outside
\* the arrays (x runs over 0 .. size - 1 in solve_lv, x is the frame's in
\* backtrack): the behaviour is undefined, and nothing after it is modelled.
out_of_bounds ==
  /\ \/ /\ pc = "solve_lv"
        /\ lv_y < rand_queens
        /\ \E x \in Rows(board.size) : ~in_bounds(board, x, lv_y)
     \/ /\ pc = "bt_loop"
        /\ Top.x < board.size
        /\ ~in_bounds(board, Top.x, Top.y)
  /\ oob' = TRUE
  /\ pc' = "undefined"
  /\ UNCHANGED <<caller, queens, reps, i, rand_queens, board, trials, lv_y, stack,
                 success, rand_used, hist, depth_max>>

\* Line 115: solve_lv returns what backtrack returned.
solve_lv_return ==
  /\ pc = "bt_return"
  /\ stack = <<>>
  /\ caller \in {"print_solution", "print_stats"}
  /\ pc' = "while"
  /\ UNCHANGED <<caller, queens, reps, i, rand_queens, board, trials, lv_y, stack,
                 success, oob, rand_used, hist, depth_max>>

\* Line 144: while (!solve_lv(board, random_queens)), success: repeat_lv returns.
repeat_lv_return ==
  /\ pc = "while"
  /\ success # 0
  /\ pc' = "done"
  /\ UNCHANGED <<caller, queens, reps, i, rand_queens, board, trials, lv_y, stack,
                 success, oob, rand_used, hist, depth_max>>

\* repeat_lv giving up after a failed attempt instead of going round again.
repeat_lv_again_returns ==
  /\ pc = "while"
  /\ success = 0
  /\ pc' = "done"
  /\ UNCHANGED <<caller, queens, reps, i, rand_queens, board, trials, lv_y, stack,
                 success, oob, rand_used, hist, depth_max>>

\* Line 144: while (!solve_lv(board, random_queens)), failure: once more.
repeat_lv_again ==
  /\ pc = "while"
  /\ success = 0
  /\ pc' = "do"
  /\ UNCHANGED <<caller, queens, reps, i, rand_queens, board, trials, lv_y, stack,
                 success, oob, rand_used, hist, depth_max>>

Next ==
  \/ create_board_call
  \/ print_solution_call
  \/ print_solution_end
  \/ print_stats_begin
  \/ print_stats_call
  \/ print_stats_return
  \/ print_stats_next
  \/ print_stats_end
  \/ repeat_lv_begin
  \/ repeat_lv_do
  \/ solve_lv_place
  \/ solve_lv_fail
  \/ solve_lv_backtrack
  \/ backtrack_entry
  \/ backtrack_place
  \/ backtrack_skip
  \/ backtrack_fail
  \/ backtrack_success
  \/ backtrack_undo
  \/ solve_lv_return
  \/ repeat_lv_return
  \/ repeat_lv_again
  \/ out_of_bounds

Spec == Init /\ [][Next]_vars

-----------------------------------------------------------------------------
(* backtrack(board, 0) alone on a freshly created board.                   *)

InitBT ==
  /\ caller = "backtrack"
  /\ queens \in 1 .. MaxBT
  /\ reps = 0
  /\ rand_queens = 0
  /\ i = 0
  /\ board = NoBoard
  /\ trials = 0
  /\ pc = "start"
  /\ lv_y = 0
  /\ stack = <<>>
  /\ success = 0
  /\ oob = FALSE
  /\ rand_used = FALSE
  /\ hist = <<>>
  /\ depth_max = 0

\* Line 81 entered with y = 0.
backtrack_call ==
  /\ caller = "backtrack"
  /\ pc = "created"
  /\ stack' = <<[y |-> 0, x |-> 0]>>
  /\ pc' = "bt_entry"
  /\ UNCHANGED <<caller, queens, reps, i, rand_queens, board, trials, lv_y,
                 success, oob, rand_used, hist, depth_max>>

NextBT ==
  \/ create_board_call
  \/ backtrack_call
  \/ backtrack_entry
  \/ backtrack_place
  \/ backtrack_skip
  \/ backtrack_fail
  \/ backtrack_success
  \/ backtrack_undo

SpecBT == InitBT /\ [][NextBT]_vars

-----------------------------------------------------------------------------
(* Free well-nested sequences of place_queen / remove_queen on a freshly   *)
(* created board: every place_queen satisfies can_place_queen, every       *)
(* remove_queen undoes the latest place_queen not yet undone.              *)

InitNest ==
  /\ caller = "nest"
  /\ queens \in 1 .. MaxNest
  /\ reps = 0
  /\ rand_queens = 0
  /\ i = 0
  /\ board = NoBoard
  /\ trials = 0
  /\ pc = "start"
  /\ lv_y = 0
  /\ stack = <<>>
  /\ success = 0
  /\ oob = FALSE
  /\ rand_used = FALSE
  /\ hist = <<>>
  /\ depth_max = 0

\* Lines 60-65 called at any (x, y) of the board that can_place_queen accepts.
nest_place ==
  /\ caller = "nest"
  /\ pc = "created"
  /\ \E x \in Rows(board.size), y \in Rows(board.size) :
       /\ can_place_queen(board, x, y)
       /\ board' = place_queen(board, x, y)
       /\ hist' = Append(hist, [x |-> x, y |-> y])
  /\ depth_max' = IF Len(hist') > depth_max THEN Len(hist') ELSE depth_max
  /\ UNCHANGED <<caller, queens, reps, i, rand_queens, trials, pc, lv_y, stack,
                 success, oob, rand_used>>

\* Lines 67-72 called at the (x, y) of the latest place_queen not yet undone.
nest_remove ==
  /\ caller = "nest"
  /\ pc = "created"
  /\ hist # <<>>
  /\ board' = remove_queen(board, hist[Len(hist)].x, hist[Len(hist)].y)
  /\ hist' = SubSeq(hist, 1, Len(hist) - 1)
  /\ UNCHANGED <<caller, queens, reps, i, rand_queens, trials, pc, lv_y, stack,
                 success, oob, rand_used, depth_max>>

NextNest ==
  \/ create_board_call
  \/ nest_place
  \/ nest_remove

SpecNest == InitNest /\ [][NextNest]_vars

-----------------------------------------------------------------------------
(* Properties.                                                             *)

-----------------------------------------------------------------------------
(* repeat_lv without a cap on the number of attempts, for what it does in   *)
(* the long run: trials counts up to MaxTrials and stays there, every other *)
(* step is the program's. The caller is print_solution.                     *)

RECURSIVE solve_lv_may_succeed(_, _, _)

\* solve_lv as the outcomes it can have, lines 105-116: from row y on, some
\* sequence of values of rand() makes solve_lv(board, k) return 1.
solve_lv_may_succeed(b, y, k) ==
  IF y < k
    THEN \E x \in available_cols(b, y) : solve_lv_may_succeed(place_queen(b, x, y), y + 1, k)
    ELSE backtrack(b, k).success = 1

InitLV == Init /\ caller = "print_solution" /\ queens \in 1 .. MaxLV

\* Lines 141-144, as repeat_lv_do, the counter saturating at MaxTrials.
repeat_lv_do_uncapped ==
  /\ pc = "do"
  /\ board' = reset_board(board)
  /\ trials' = IF trials < MaxTrials THEN trials + 1 ELSE trials
  /\ lv_y' = 0
  /\ pc' = "solve_lv"
  /\ hist' = <<>>
  /\ UNCHANGED <<caller, queens, reps, i, rand_queens, stack,
                 success, oob, rand_used, depth_max>>

NextLV ==
  \/ create_board_call
  \/ print_solution_call
  \/ print_solution_end
  \/ repeat_lv_begin
  \/ repeat_lv_do_uncapped
  \/ solve_lv_place
  \/ solve_lv_fail
  \/ solve_lv_backtrack
  \/ backtrack_entry
  \/ backtrack_place
  \/ backtrack_skip
  \/ backtrack_fail
  \/ backtrack_success
  \/ backtrack_undo
  \/ out_of_bounds
  \/ solve_lv_return
  \/ repeat_lv_return
  \/ repeat_lv_again

\* rand() % index in row y yields a column from which solve_lv can still
\* return 1 (line 113).
solve_lv_place_lucky(y) ==
  /\ solve_lv_place
  /\ lv_y = y
  /\ solve_lv_may_succeed(board', y + 1, rand_queens)

\* The program keeps stepping, and rand() is fair: in each row, a lucky column
\* that is on offer again and again is eventually the one drawn.
SpecLV ==
  /\ InitLV
  /\ [][NextLV]_vars
  /\ WF_vars(NextLV)
  /\ \A y \in 0 .. (MaxLV - 1) : SF_vars(solve_lv_place_lucky(y))

\* Fair scheduling of the single thread: a step that can be taken is taken.
FairSpec == Spec /\ WF_vars(Next)

\* The board variable denotes allocated storage the program is still defined on.
HasBoard == pc \notin {"start", "exit", "undefined"}

\* A full N-Queens solution, read off solution[] alone.
FullValidSolution(sol, n) ==
  /\ \A y \in 0 .. (n - 1) : sol[y] \in 0 .. (n - 1)
  /\ \A y1 \in 0 .. (n - 1), y2 \in 0 .. (n - 1) :
       y1 < y2 => /\ sol[y1] # sol[y2]
                  /\ y1 - sol[y1] # y2 - sol[y2]
                  /\ y1 + sol[y1] # y2 + sol[y2]

\* A board of size n with no queen on it, field for field.
IsFresh(b, n) ==
  /\ b.size = n
  /\ b.shift_diag45 = n - 1
  /\ DOMAIN b.solution = 0 .. (n - 1)
  /\ DOMAIN b.col_is_free = 0 .. (n - 1)
  /\ DOMAIN b.diag45_is_free = 0 .. (2 * n - 2)
  /\ DOMAIN b.diag135_is_free = 0 .. (2 * n - 2)
  /\ \A y \in 0 .. (n - 1) : b.solution[y] = -1
  /\ \A x \in 0 .. (n - 1) : b.col_is_free[x] = 1
  /\ \A d \in 0 .. (2 * n - 2) : b.diag45_is_free[d] = 1 /\ b.diag135_is_free[d] = 1

\* C1: during repeat_lv on a board of size n >= 1 with 0 <= random_queens <= n,
\* whenever is_valid holds, solution[] is a full valid N-Queens solution (every
\* row holds a queen, no two share a column or a diagonal); and the board
\* repeat_lv returns with is one.
C1_ValidWhenComplete ==
  (HasBoard /\ queens >= 1 /\ rand_queens <= queens) =>
     /\ is_valid(board) => FullValidSolution(board.solution, board.size)
     /\ pc = "done" => FullValidSolution(board.solution, board.size)

\* repeat_lv has returned after a failed attempt, random queens placed.
C1_Witness ==
  /\ pc = "done" /\ queens >= 4 /\ rand_queens >= 2 /\ rand_queens <= queens
  /\ trials >= 2 /\ is_valid(board)

\* C2: backtrack(board, 0) on a freshly created board of size n returns 0 for
\* n = 2 and n = 3, and 1 for every other n >= 1 explored (1, 4, 5, 6, 7, 8).
C2_BacktrackSolvable ==
  (caller = "backtrack" /\ pc = "bt_return" /\ stack = <<>>) =>
     (success = 0 <=> queens \in {2, 3})

\* backtrack(board, 0) has returned 0 on the board of size 3.
C2_Witness ==
  /\ caller = "backtrack" /\ pc = "bt_return" /\ stack = <<>>
  /\ queens = 3 /\ success = 0

\* C3: for solvable n, repeat_lv(board, 0) calls rand() never, reports
\* trials = 1 and leaves the board backtrack(board, 0) leaves on an empty board.
C3_ZeroRandomIsBacktrack ==
  (pc = "done" /\ rand_queens = 0 /\ queens >= 1 /\ queens \notin {2, 3}) =>
     /\ ~rand_used
     /\ trials = 1
     /\ backtrack(create_board(queens), 0) = [success |-> 1, board |-> board]

\* repeat_lv(board, 0) has returned on a board that held a solution before.
C3_Witness ==
  /\ pc = "done" /\ rand_queens = 0 /\ queens >= 4
  /\ caller = "print_stats" /\ i >= 1

\* t is before s in lexicographic order, both of length n.
LexLess(t, s, n) ==
  \E k \in 0 .. (n - 1) :
     /\ \A j \in 0 .. (k - 1) : t[j] = s[j]
     /\ t[k] < s[k]

\* Every way to fill rows k .. n - 1 of sol with columns.
Completions(sol, k, n) ==
  { [y \in 0 .. (n - 1) |-> IF y < k THEN sol[y] ELSE c[y]] :
      c \in [k .. (n - 1) -> 0 .. (n - 1)] }

\* C4: when backtrack(board, random_queens) returns 1 to solve_lv, solution[]
\* is the lexicographically smallest full valid solution that keeps the rows
\* placed before the call; for size 4 and random_queens = 0 it is [1,3,0,2].
C4_LeftmostFirst ==
  (pc = "while" /\ success = 1 /\ queens >= 1 /\ rand_queens <= queens) =>
     /\ FullValidSolution(board.solution, queens)
     /\ \A t \in Completions(board.solution, rand_queens, queens) :
          FullValidSolution(t, queens) => ~LexLess(t, board.solution, queens)
     /\ (queens = 4 /\ rand_queens = 0) =>
          board.solution = [y \in 0 .. 3 |-> CASE y = 0 -> 1 [] y = 1 -> 3
                                               [] y = 2 -> 0 [] y = 3 -> 2]

\* backtrack has returned 1 on the board of size 4 with no random queen.
C4_Witness ==
  pc = "while" /\ success = 1 /\ queens = 4 /\ rand_queens = 0

\* C5: after a well-nested sequence of place_queen / remove_queen calls is
\* fully unwound, the board is the freshly created one, field for field.
C5_UnwindRestores ==
  (caller = "nest" /\ pc = "created" /\ hist = <<>>) => IsFresh(board, queens)

\* A sequence that nested at least two deep has been unwound.
C5_Witness ==
  caller = "nest" /\ pc = "created" /\ hist = <<>> /\ depth_max >= 2

\* Rows of b holding a queen.
PlacedRows(b) == {y \in DOMAIN b.solution : b.solution[y] # -1}

\* C6: between place, remove and reset operations of the search, the free-arrays
\* are an exact cache of solution[]: a column, rising diagonal (y - x + size - 1)
\* or falling diagonal (y + x) is marked occupied iff a placed queen is on it.
C6_FreeArraysMirrorSolution ==
  HasBoard =>
     /\ \A x \in DOMAIN board.col_is_free :
          (board.col_is_free[x] = 0) <=>
             (\E y \in PlacedRows(board) : board.solution[y] = x)
     /\ \A d \in DOMAIN board.diag45_is_free :
          (board.diag45_is_free[d] = 0) <=>
             (\E y \in PlacedRows(board) :
                 y - board.solution[y] + (board.size - 1) = d)
     /\ \A d \in DOMAIN board.diag135_is_free :
          (board.diag135_is_free[d] = 0) <=>
             (\E y \in PlacedRows(board) : y + board.solution[y] = d)

\* On the board of size 4 backtrack has placed (0, 0), placed and removed
\* (2, 1), and is about to try column 3 of row 1.
C6_Witness ==
  /\ pc = "bt_loop" /\ queens = 4 /\ rand_queens = 0 /\ Len(stack) = 2
  /\ Top.y = 1 /\ Top.x = 3
  /\ PlacedRows(board) = {0} /\ board.solution[0] = 0 /\ board.col_is_free[2] = 1

\* C7: create_board(n) for n > 0 returns a board of size n with every row
\* unplaced, every column free and every entry 0 .. 2n - 2 of both diagonal
\* arrays free.
C7_CreateBoardFresh ==
  (pc = "created" /\ queens > 0) => IsFresh(board, queens)

\* create_board has returned a board of size at least 3.
C7_Witness ==
  pc = "created" /\ queens >= 3 /\ board.size = queens

\* C8: reset_board applied to any board the search reaches gives the freshly
\* created board of that size, and every solve_lv attempt starts on it.
C8_ResetRestores ==
  /\ HasBoard => IsFresh(reset_board(board), queens)
  /\ (pc = "solve_lv" /\ lv_y = 0) => IsFresh(board, queens)

\* reset_board has run on the board a failed solve_lv left behind.
C8_Witness ==
  pc = "solve_lv" /\ lv_y = 0 /\ trials >= 2 /\ queens >= 4 /\ rand_queens >= 1

\* C9: create_board(size) with size <= 0 fails fast: no board of capacity zero
\* is returned, so no later operation indexes outside the arrays of one.
C9_NonPositiveSizeRejected ==
  queens <= 0 => ~oob

\* C10: every backtrack call of the search terminates; each recursive call has
\* the row index of its caller plus one, and no row index exceeds size.
C10_RowsIncrease ==
  \A k \in 1 .. Len(stack) :
     /\ stack[k].y <= board.size
     /\ k > 1 => stack[k].y = stack[k - 1].y + 1

C10_BacktrackTerminates ==
  /\ [](queens >= 1 => C10_RowsIncrease)
  /\ \A d \in 1 .. (MaxSize + 1) :
       (queens >= 1 /\ pc = "bt_entry" /\ Len(stack) = d)
          ~> (pc = "bt_return" /\ Len(stack) = d - 1)

\* A recursive backtrack call three rows below the first row backtrack fills.
C10_Witness ==
  /\ pc = "bt_entry" /\ queens >= 4 /\ Len(stack) = 4
  /\ Top.y = rand_queens + 3 /\ ~is_valid(board)

\* C11: on a board of size 2 or 3, where no prefix of random queens extends to
\* a solution, repeat_lv never returns for any random_queens in 0 .. size: every
\* solve_lv attempt fails and the loop goes round again, so the trial counter
\* passes every value (here: reaches the cap of the model with the loop still
\* asking for another attempt).
C11_NoSuccessPossible == queens \in {2, 3} /\ rand_queens <= queens

C11_NeverReturns ==
  /\ [](C11_NoSuccessPossible => /\ pc # "done"
                                 /\ pc = "while" => success = 0
                                 /\ (pc = "solve_lv" /\ lv_y = 0) =>
                                       IsFresh(board, queens))
  /\ (C11_NoSuccessPossible /\ pc = "repeat_lv")
        ~> (pc = "do" /\ trials = MaxTrials)

\* On the board of size 3 with two random queens every attempt up to the cap
\* has failed and the loop is about to start one more.
C11_Witness ==
  pc = "do" /\ trials = MaxTrials /\ queens = 3 /\ rand_queens = 2 /\ success = 0

\* Rows 0 .. y - 1 of sol hold mutually non-attacking queens, rows y .. n - 1 none.
ValidPrefix(sol, y, n) ==
  /\ \A r \in 0 .. (n - 1) : IF r < y THEN sol[r] \in 0 .. (n - 1) ELSE sol[r] = -1
  /\ \A r1 \in 0 .. (y - 1), r2 \in 0 .. (y - 1) :
       r1 < r2 => /\ sol[r1] # sol[r2]
                  /\ r1 - sol[r1] # r2 - sol[r2]
                  /\ r1 + sol[r1] # r2 + sol[r2]

\* The rows below y of sol, the rest unplaced.
PrefixOf(sol, y, n) == [r \in 0 .. (n - 1) |-> IF r < y THEN sol[r] ELSE -1]

\* The row index of the backtrack call that has just returned (pc = "bt_return"):
\* the call made by solve_lv, or the recursive call of the innermost frame left.
ReturnedRow == IF stack = <<>> THEN rand_queens ELSE Top.y + 1

\* C12: backtrack(board, y), called with rows 0 .. y - 1 holding mutually
\* non-attacking queens and rows y .. n - 1 unplaced, returns 1 iff some
\* assignment of columns to rows y .. n - 1 extends the prefix to a full valid
\* solution (brute force over all assignments). Checked where each call
\* returns, the recursive ones and the one made by solve_lv.
C12_BacktrackSoundComplete ==
  (pc = "bt_return" /\ queens >= 1 /\ rand_queens <= queens) =>
     /\ ValidPrefix(PrefixOf(board.solution, ReturnedRow, queens), ReturnedRow, queens)
     /\ (success = 1) <=>
          (\E t \in Completions(board.solution, ReturnedRow, queens) :
              FullValidSolution(t, queens))

\* backtrack has returned 0 for a prefix of two or more queens on a solvable board.
C12_Witness ==
  /\ pc = "bt_return" /\ stack = <<>> /\ success = 0
  /\ queens >= 5 /\ rand_queens >= 2 /\ rand_queens < queens

\* The precondition of place_queen(x, y) on board b.
PlacePrecondition(b, x, y) ==
  /\ x \in 0 .. (b.size - 1) /\ y \in 0 .. (b.size - 1)
  /\ b.col_is_free[x] = 1
  /\ b.diag45_is_free[y - x + (b.size - 1)] = 1
  /\ b.diag135_is_free[y + x] = 1
  /\ b.solution[y] = -1

\* The precondition of remove_queen(x, y) on board b with placement history h:
\* the queen at (x, y) is on the board and is the latest placed of those on it.
RemovePrecondition(b, h, x, y) ==
  /\ y \in 0 .. (b.size - 1)
  /\ b.solution[y] = x
  /\ h # <<>>
  /\ h[Len(h)] = [x |-> x, y |-> y]
  /\ \A k \in 1 .. Len(h) : b.solution[h[k].y] = h[k].x

\* C13: in repeat_lv with 0 <= random_queens <= size, every place_queen(x, y)
\* call (line 113 of solve_lv, line 86 of backtrack) is made with
\* can_place_queen(x, y) true and solution[y] unplaced, and every
\* remove_queen(x, y) call (line 91) with solution[y] = x, that queen being the
\* latest placed one still on the board.
C13_PreconditionsHold ==
  [][ (queens >= 1 /\ rand_queens <= queens) =>
        /\ (pc = "solve_lv" /\ lv_y' = lv_y + 1) =>
              PlacePrecondition(board, board'.solution[lv_y], lv_y)
        /\ (pc = "bt_loop" /\ pc' = "bt_entry") =>
              PlacePrecondition(board, Top.x, Top.y)
        /\ (pc = "bt_return" /\ pc' = "bt_loop") =>
              RemovePrecondition(board, hist, Top.x, Top.y) ]_vars

\* backtrack, below a random queen, has just removed the queen it had placed in
\* the column before the current one: that column can take a queen again.
C13_Witness ==
  /\ pc = "bt_loop" /\ queens >= 4 /\ rand_queens >= 1 /\ rand_queens < queens
  /\ Top.x >= 1 /\ Top.x <= board.size /\ Top.y < board.size
  /\ can_place_queen(board, Top.x - 1, Top.y)
  /\ Len(hist) = Top.y

\* The board of size n holding exactly the queens of the placement history h.
BoardOf(h, n) ==
  [ size            |-> n,
    shift_diag45    |-> n - 1,
    solution        |-> [r \in 0 .. (n - 1) |->
                           IF \E k \in 1 .. Len(h) : h[k].y = r
                             THEN h[CHOOSE k \in 1 .. Len(h) : h[k].y = r].x
                             ELSE -1],
    col_is_free     |-> [c \in 0 .. (n - 1) |->
                           IF \E k \in 1 .. Len(h) : h[k].x = c THEN 0 ELSE 1],
    diag45_is_free  |-> [d \in 0 .. (2 * n - 2) |->
                           IF \E k \in 1 .. Len(h) : h[k].y - h[k].x + (n - 1) = d
                             THEN 0 ELSE 1],
    diag135_is_free |-> [d \in 0 .. (2 * n - 2) |->
                           IF \E k \in 1 .. Len(h) : h[k].y + h[k].x = d
                             THEN 0 ELSE 1] ]

\* The history holds one queen for each of the rows 0 .. j - 1, in row order, and
\* the four fields of the board hold these queens and nothing else.
HoldsExactlyRows(j) ==
  /\ Len(hist) = j
  /\ \A k \in 1 .. j : hist[k].y = k - 1
  /\ board = BoardOf(hist, queens)

\* C14: a backtrack(board, y) call that returns 0 leaves solution, col_is_free,
\* diag45_is_free and diag135_is_free as they were when it was entered: at entry
\* and at a 0 return the board holds exactly the queens of rows 0 .. y - 1, and
\* no step taken while the call is active touches those queens (and backtrack
\* as a function returns the board it was given when it returns 0). So when solve_lv
\* returns 0 the board holds the random queens of rows 0 .. j - 1, j <= random_queens,
\* and nothing else.
C14_FailureRestoresBoard ==
  /\ []((queens >= 1 /\ rand_queens <= queens) =>
          /\ pc = "bt_entry" =>
                /\ HoldsExactlyRows(Top.y)
                /\ LET r == backtrack(board, Top.y)
                   IN  r.success = 0 => r.board = board
          /\ (pc = "bt_return" /\ success = 0) => HoldsExactlyRows(ReturnedRow)
          /\ (pc = "while" /\ success = 0) =>
                /\ lv_y <= rand_queens
                /\ HoldsExactlyRows(lv_y)
                /\ \A r \in 0 .. (queens - 1) : (board.solution[r] = -1) <=> (r >= lv_y))
  /\ [][ (queens >= 1 /\ rand_queens <= queens) =>
           \A d \in 1 .. Len(stack) :
              d <= Len(stack') =>
                 /\ stack'[d].y = stack[d].y
                 /\ SubSeq(hist', 1, stack[d].y) = SubSeq(hist, 1, stack[d].y) ]_vars

\* solve_lv has returned 0 after backtrack ran out of columns below two or
\* more random queens.
C14_Witness ==
  /\ pc = "while" /\ success = 0 /\ queens >= 4
  /\ rand_queens >= 2 /\ lv_y = rand_queens /\ rand_queens < queens - 1
  /\ Len(hist) = rand_queens

\* C15: during repeat_lv / solve_lv / backtrack the rows holding a queen are
\* the rows 0 .. m - 1 for some m, placed in increasing row order (the queens
\* not yet removed are those of rows 0, 1, ... in the order placed), so
\* is_valid's test of the last row alone agrees with "every row holds a queen".
C15_PlacedRowsArePrefix ==
  (HasBoard /\ queens >= 1 /\ rand_queens <= queens) =>
     /\ \E m \in 0 .. queens : PlacedRows(board) = 0 .. (m - 1)
     /\ PlacedRows(board) = 0 .. (Len(hist) - 1)
     /\ \A k \in 1 .. Len(hist) : hist[k].y = k - 1
     /\ is_valid(board) <=> (\A r \in 0 .. (queens - 1) : board.solution[r] # -1)

\* backtrack is working on row 3 of the board of size 5 below one random queen.
C15_Witness ==
  /\ pc = "bt_loop" /\ queens = 5 /\ rand_queens = 1
  /\ Top.y = 3 /\ PlacedRows(board) = {0, 1, 2}

\* C16: for every solvable size n (1, or 4 and more) and every random_queens in
\* 0 .. n, each solve_lv attempt starts with some choice of random columns that
\* makes it return 1, and so, rand() being fair, repeat_lv eventually returns.
C16_Solvable == queens >= 1 /\ queens \notin {2, 3} /\ rand_queens <= queens

C16_EventuallyReturns ==
  /\ []((C16_Solvable /\ pc = "solve_lv" /\ lv_y = 0) =>
          solve_lv_may_succeed(board, 0, rand_queens))
  /\ (C16_Solvable /\ pc = "repeat_lv") ~> (pc = "done")

\* repeat_lv has returned with every queen placed at random, after the
\* attempts before had failed.
C16_Witness ==
  /\ pc = "done" /\ queens >= 4 /\ rand_queens = queens
  /\ trials = MaxTrials /\ rand_used

\* The indices a call with (x, y) uses on a board of size n are inside the arrays.
ArgsInBounds(x, y, n) ==
  /\ 0 <= x /\ x < n
  /\ 0 <= y /\ y < n
  /\ 0 <= y - x + (n - 1) /\ y - x + (n - 1) <= 2 * n - 2
  /\ 0 <= y + x /\ y + x <= 2 * n - 2

\* C17: in repeat_lv on a board of size n >= 1 with 0 <= random_queens <= n no
\* array is indexed outside its allocation: can_place_queen, place_queen and
\* remove_queen are called with 0 <= x < n and 0 <= y < n only, so the diagonal
\* indices are in 0 .. 2n - 2; backtrack is entered with y = n only when is_valid
\* holds, so row n is never probed.
C17_AccessesInBounds ==
  (queens >= 1 /\ rand_queens <= queens) =>
     /\ ~oob
     /\ pc # "undefined"
     /\ (pc = "solve_lv" /\ lv_y < rand_queens) =>
           \A x \in 0 .. (board.size - 1) : ArgsInBounds(x, lv_y, board.size)
     /\ (pc = "bt_loop" /\ Top.x < board.size) =>
           ArgsInBounds(Top.x, Top.y, board.size)
     /\ (pc = "bt_return" /\ stack # <<>> /\ success = 0) =>
           ArgsInBounds(Top.x, Top.y, board.size)
     /\ pc = "bt_entry" =>
           /\ 0 <= Top.y /\ Top.y <= board.size
           /\ Top.y = board.size => is_valid(board)

\* backtrack is entered with y = size, every row filled by backtrack itself
\* or by solve_lv.
C17_Witness ==
  /\ pc = "bt_entry" /\ Top.y = board.size /\ queens >= 4
  /\ rand_queens >= 1 /\ rand_queens < queens /\ is_valid(board) /\ ~oob

====
